---- MODULE Spec2Model ----
(***************************************************************************)
(* lazy-chain: the navigation state machine (main.go), the Settings screen *)
(* (models/settings), its network session manager and the configuration   *)
(* file, and the GOAL payment builder (models/goal).                       *)
(*                                                                         *)
(* A Go string is modelled as the sequence of its bytes, each byte a       *)
(* one-element TLA+ string; the bytes of a multi-byte rune are named by    *)
(* their hexadecimal value ("xC3", "xA9").                                 *)
(***************************************************************************)
EXTENDS Integers, Sequences, FiniteSets, TLC

\* ------------------------------------------------------------------------
\* Bounds of the model
\* ------------------------------------------------------------------------

\* Text-editing keystrokes (typed runes and backspaces) delivered in one run.
MaxEdits == 2

\* Events of one run that reach outside the process: the endpoints, the
\* configuration file, the goal command.
MaxTrips == 1

\* ------------------------------------------------------------------------
\* Strings
\* ------------------------------------------------------------------------

Empty == << >>

\* The UTF-8 encoding of U+00E9 and of U+FFFD, the Unicode replacement rune.
EAcute == <<"xC3", "xA9">>
Replacement == <<"xEF", "xBF", "xBD">>

\* Bytes >= 0x80 that occur in the model; every other byte is ASCII.
HighBytes == {"xC3", "xA9", "xEF", "xBF", "xBD"}

HasPrefix(s, p) == Len(s) >= Len(p) /\ SubSeq(s, 1, Len(p)) = p

DropFirst(s, n) == SubSeq(s, n + 1, Len(s))

\* s[:len(s)-1]
DropLastByte(s) == SubSeq(s, 1, Len(s) - 1)

\* encoding/json writes a string coerced to valid UTF-8: every byte that does
\* not start a well-formed sequence is replaced by U+FFFD.
\* The ASCII bytes before the first byte >= 0x80 are copied as they are.
RECURSIVE ToValidUTF8(_)
ToValidUTF8(s) ==
    LET high == {i \in 1..Len(s) : s[i] \in HighBytes} IN
    IF high = {} THEN s
    ELSE LET first == CHOOSE i \in high : \A j \in high : i <= j
             rest == DropFirst(s, first - 1)
         IN SubSeq(s, 1, first - 1) \o
            (IF HasPrefix(rest, EAcute) THEN EAcute \o ToValidUTF8(DropFirst(rest, 2))
             ELSE IF HasPrefix(rest, Replacement)
             THEN Replacement \o ToValidUTF8(DropFirst(rest, 3))
             ELSE Replacement \o ToValidUTF8(Tail(rest)))

Whitespace == {" "}

RECURSIVE TrimLeft(_, _)
TrimLeft(s, cut) ==
    IF s # Empty /\ s[1] \in cut THEN TrimLeft(Tail(s), cut) ELSE s

RECURSIVE TrimRight(_, _)
TrimRight(s, cut) ==
    IF s # Empty /\ s[Len(s)] \in cut THEN TrimRight(DropLastByte(s), cut) ELSE s

TrimSpace(s) == TrimRight(TrimLeft(s, Whitespace), Whitespace)

\* strings.Index and strings.LastIndex: 0-based, -1 when absent.
Occurrences(s, p) == {i \in 0..(Len(s) - Len(p)) : SubSeq(s, i + 1, i + Len(p)) = p}

Index(s, p) ==
    IF Occurrences(s, p) = {} THEN -1
    ELSE CHOOSE i \in Occurrences(s, p) : \A j \in Occurrences(s, p) : i <= j

LastIndex(s, p) ==
    IF Occurrences(s, p) = {} THEN -1
    ELSE CHOOSE i \in Occurrences(s, p) : \A j \in Occurrences(s, p) : i >= j

Contains(s, p) == Occurrences(s, p) # {}

Repeat(c, n) == [i \in 1..n |-> c]

\* ------------------------------------------------------------------------
\* Network profiles and the configuration file
\* ------------------------------------------------------------------------

NetworkInfo(name, aurl, aport, atoken, iurl, iport, itoken) ==
    [Name |-> name, AlgodURL |-> aurl, AlgodPort |-> aport, AlgodToken |-> atoken,
     IndexerURL |-> iurl, IndexerPort |-> iport, IndexerToken |-> itoken]

\* NetworkInfo{}
ZeroNetworkInfo == NetworkInfo(Empty, Empty, Empty, Empty, Empty, Empty, Empty)

TokenLen == 64

Localnet == <<"l", "o", "c", "a", "l", "n", "e", "t">>
Testnet == <<"t", "e", "s", "t", "n", "e", "t">>
Mainnet == <<"m", "a", "i", "n", "n", "e", "t">>
HttpLocalhost == <<"h", "t", "t", "p", ":", "/", "/", "l", "o", "c", "a", "l", "h", "o", "s", "t">>
Port4001 == <<"4", "0", "0", "1">>
Port8980 == <<"8", "9", "8", "0">>
Port443 == <<"4", "4", "3">>
Port80 == <<"8", "0">>
TestnetApi == <<"h", "t", "t", "p", "s", ":", "/", "/", "t", "e", "s", "t", "n", "e", "t", "-", "a", "p", "i", ".", "4", "1", "6", "0", ".", "n", "o", "d", "e", "l", "y", ".", "d", "e", "v">>
TestnetIdx == <<"h", "t", "t", "p", "s", ":", "/", "/", "t", "e", "s", "t", "n", "e", "t", "-", "i", "d", "x", ".", "4", "1", "6", "0", ".", "n", "o", "d", "e", "l", "y", ".", "d", "e", "v">>
MainnetApi == <<"h", "t", "t", "p", "s", ":", "/", "/", "m", "a", "i", "n", "n", "e", "t", "-", "a", "p", "i", ".", "4", "1", "6", "0", ".", "n", "o", "d", "e", "l", "y", ".", "d", "e", "v">>
MainnetIdx == <<"h", "t", "t", "p", "s", ":", "/", "/", "m", "a", "i", "n", "n", "e", "t", "-", "i", "d", "x", ".", "4", "1", "6", "0", ".", "n", "o", "d", "e", "l", "y", ".", "d", "e", "v">>
CustomName == <<"c", "u", "s", "t", "o", "m">>

LocalnetInfo ==
    NetworkInfo(Localnet, HttpLocalhost, Port4001, Repeat("a", TokenLen),
                HttpLocalhost, Port8980, Repeat("a", TokenLen))

TestnetInfo == NetworkInfo(Testnet, TestnetApi, Port443, Empty, TestnetIdx, Port443, Empty)

MainnetInfo == NetworkInfo(Mainnet, MainnetApi, Port443, Empty, MainnetIdx, Port443, Empty)

\* The registry literal NewSettingsModel starts from.
PredefinedNetworks ==
    [n \in {Localnet, Testnet, Mainnet} |->
        IF n = Localnet THEN LocalnetInfo
        ELSE IF n = Testnet THEN TestnetInfo ELSE MainnetInfo]

\* The buffer the "c" key seeds the profile form with.
NewCustomNetwork ==
    NetworkInfo(CustomName, HttpLocalhost, Port4001, Empty, HttpLocalhost, Port8980, Empty)

\* m[k] = v
MapSet(m, k, v) == [x \in DOMAIN m \cup {k} |-> IF x = k THEN v ELSE m[x]]

\* Config; a nil CustomNetworks slice is IsNil with no elements.
Config(network, wallet, custom, isNil) ==
    [Network |-> network, WalletAddr |-> wallet, CustomNetworks |-> custom, IsNil |-> isNil]

\* Config{}
ZeroConfig == Config(Empty, Empty, << >>, TRUE)

\* The configuration file: absent, not JSON, or a JSON object whose
\* custom_networks member may be missing.
File(kind, network, wallet, custom, hasList) ==
    [kind |-> kind, network |-> network, wallet_addr |-> wallet,
     custom_networks |-> custom, has_list |-> hasList]

MissingFile == File("missing", Empty, Empty, << >>, FALSE)

MalformedFile == File("malformed", Empty, Empty, << >>, FALSE)

EncodeNetworkInfo(n) ==
    NetworkInfo(ToValidUTF8(n.Name), ToValidUTF8(n.AlgodURL), ToValidUTF8(n.AlgodPort),
                ToValidUTF8(n.AlgodToken), ToValidUTF8(n.IndexerURL),
                ToValidUTF8(n.IndexerPort), ToValidUTF8(n.IndexerToken))

\* json.MarshalIndent(cfg) after SaveConfig has made the slice non-nil.
Marshal(cfg) ==
    File("json", ToValidUTF8(cfg.Network), ToValidUTF8(cfg.WalletAddr),
         [i \in 1..Len(cfg.CustomNetworks) |-> EncodeNetworkInfo(cfg.CustomNetworks[i])],
         TRUE)

\* LoadConfig: [cfg, err].
LoadConfig(file) ==
    IF file.kind = "missing"
    THEN [cfg |-> Config(Testnet, Empty, << >>, FALSE), err |-> FALSE]
    ELSE IF file.kind = "malformed"
    THEN [cfg |-> ZeroConfig, err |-> TRUE]
    ELSE [cfg |-> Config(file.network, file.wallet_addr,
                         IF file.has_list THEN file.custom_networks ELSE << >>, FALSE),
          err |-> FALSE]

\* What the file system does with a write: it succeeds, it fails before the
\* file is opened, or it fails after os.WriteFile has truncated the file.
WriteOutcomes == {"ok", "failed", "truncated"}

\* SaveConfig: [file, err].
SaveConfig(file, cfg, write) ==
    IF write = "ok" THEN [file |-> Marshal(cfg), err |-> FALSE]
    ELSE IF write = "truncated" THEN [file |-> MalformedFile, err |-> TRUE]
    ELSE [file |-> file, err |-> TRUE]

\* A faulty ValidateNetworkConfig that forgets the indexer rule; C6 tells the
\* two apart.
ValidateNetworkConfigPrimaryOnly(networkInfo) ==
    IF networkInfo.Name = Empty THEN "network name cannot be empty"
    ELSE IF networkInfo.AlgodURL = Empty THEN "algod URL cannot be empty"
    ELSE IF networkInfo.AlgodPort = Empty THEN "algod port cannot be empty"
    ELSE ""

\* ValidateNetworkConfig: the error text, "" for nil.
ValidateNetworkConfig(networkInfo) ==
    IF networkInfo.Name = Empty THEN "network name cannot be empty"
    ELSE IF networkInfo.AlgodURL = Empty THEN "algod URL cannot be empty"
    ELSE IF networkInfo.AlgodPort = Empty THEN "algod port cannot be empty"
    ELSE IF networkInfo.IndexerURL # Empty /\ networkInfo.IndexerPort = Empty
    THEN "indexer port required when indexer URL is provided"
    ELSE ""

\* ------------------------------------------------------------------------
\* Client construction (networks_clients.go)
\* ------------------------------------------------------------------------

Slash == {"/"}
SchemeSep == <<":", "/", "/">>
Colon == <<":">>

trimSlash(s) == TrimRight(TrimSpace(s), Slash)

hasScheme(s) == Contains(s, SchemeSep)

hasExplicitPort(u) == LastIndex(u, Colon) > Index(u, SchemeSep) + 2

\* The address handed to MakeClient for a URL and a port.
clientAddress(url, port) ==
    LET base == TrimSpace(url) IN
    IF hasScheme(base)
    THEN IF port # Empty /\ ~hasExplicitPort(trimSlash(base)) /\ port # Port443 /\ port # Port80
         THEN trimSlash(base) \o Colon \o port
         ELSE trimSlash(base)
    ELSE trimSlash(base) \o Colon \o port

\* A client handle; NilClient is the nil pointer.
Client(address, token) == [nil |-> FALSE, address |-> address, token |-> token]

NilClient == [nil |-> TRUE, address |-> Empty, token |-> Empty]

\* createAlgodClient: [client, err]; buildOk is whether algod.MakeClient
\* accepts the address.
createAlgodClient(networkInfo, buildOk) ==
    IF buildOk
    THEN [client |-> Client(clientAddress(networkInfo.AlgodURL, networkInfo.AlgodPort),
                            networkInfo.AlgodToken),
          err |-> FALSE]
    ELSE [client |-> NilClient, err |-> TRUE]

\* createIndexerClient: [client, err].
createIndexerClient(networkInfo, buildOk) ==
    IF networkInfo.IndexerURL = Empty THEN [client |-> NilClient, err |-> TRUE]
    ELSE IF buildOk
    THEN [client |-> Client(clientAddress(networkInfo.IndexerURL, networkInfo.IndexerPort),
                            networkInfo.IndexerToken),
          err |-> FALSE]
    ELSE [client |-> NilClient, err |-> TRUE]

\* ------------------------------------------------------------------------
\* NetworkManager (the network session)
\* ------------------------------------------------------------------------

\* What the endpoints answer during one call: whether each client can be
\* built and whether each request succeeds.
NetOk == [algodBuild |-> TRUE, algodStatus |-> TRUE, indexerBuild |-> TRUE, indexerSearch |-> TRUE]

NetOutcomes ==
    {NetOk,
     [NetOk EXCEPT !.algodBuild = FALSE],
     [NetOk EXCEPT !.algodStatus = FALSE],
     [NetOk EXCEPT !.indexerBuild = FALSE],
     [NetOk EXCEPT !.indexerSearch = FALSE]}

\* A request sent to an endpoint: the operation that sent it, the request
\* and the address of the client used.
Request(op, what, client) == [op |-> op, request |-> what, address |-> client.address]

\* NewNetworkManager()
NewNetworkManager ==
    [algodClient |-> NilClient, indexerClient |-> NilClient,
     currentNetwork |-> ZeroNetworkInfo, connected |-> FALSE]

\* A faulty TestNetworkConnection that keeps the primary client it built once
\* the primary answered; C13 tells the two apart.
TestNetworkConnectionStoring(nm, networkInfo, net) ==
    LET algod == createAlgodClient(networkInfo, net.algodBuild)
        indexer == createIndexerClient(networkInfo, net.indexerBuild)
        statusCall == <<Request("Test", "algod.Status", algod.client)>>
        searchCall == <<Request("Test", "indexer.Search", indexer.client)>>
        kept == [nm EXCEPT !.algodClient = algod.client]
    IN
    IF algod.err
    THEN [nm |-> nm, err |-> "failed to create algod client", calls |-> << >>]
    ELSE IF ~net.algodStatus
    THEN [nm |-> nm, err |-> "algod connection test failed", calls |-> statusCall]
    ELSE IF networkInfo.IndexerURL # Empty
    THEN IF indexer.err
         THEN [nm |-> kept, err |-> "failed to create indexer client", calls |-> statusCall]
         ELSE IF ~net.indexerSearch
         THEN [nm |-> kept, err |-> "indexer connection test failed",
               calls |-> statusCall \o searchCall]
         ELSE [nm |-> kept, err |-> "", calls |-> statusCall \o searchCall]
    ELSE [nm |-> kept, err |-> "", calls |-> statusCall]

\* A faulty TestNetworkConnection that treats a failed indexer probe as a
\* warning; C14 tells the two apart.
TestNetworkConnectionLenient(nm, networkInfo, net) ==
    LET algod == createAlgodClient(networkInfo, net.algodBuild)
        indexer == createIndexerClient(networkInfo, net.indexerBuild)
        statusCall == <<Request("Test", "algod.Status", algod.client)>>
        searchCall == <<Request("Test", "indexer.Search", indexer.client)>>
    IN
    IF algod.err
    THEN [nm |-> nm, err |-> "failed to create algod client", calls |-> << >>]
    ELSE IF ~net.algodStatus
    THEN [nm |-> nm, err |-> "algod connection test failed", calls |-> statusCall]
    ELSE IF networkInfo.IndexerURL # Empty /\ ~indexer.err
    THEN [nm |-> nm, err |-> "", calls |-> statusCall \o searchCall]
    ELSE [nm |-> nm, err |-> "", calls |-> statusCall]

\* TestNetworkConnection: [nm, err, calls]; err is "" for nil.
TestNetworkConnection(nm, networkInfo, net) ==
    LET algod == createAlgodClient(networkInfo, net.algodBuild)
        indexer == createIndexerClient(networkInfo, net.indexerBuild)
        statusCall == <<Request("Test", "algod.Status", algod.client)>>
        searchCall == <<Request("Test", "indexer.Search", indexer.client)>>
    IN
    IF algod.err
    THEN [nm |-> nm, err |-> "failed to create algod client", calls |-> << >>]
    ELSE IF ~net.algodStatus
    THEN [nm |-> nm, err |-> "algod connection test failed", calls |-> statusCall]
    ELSE IF networkInfo.IndexerURL # Empty
    THEN IF indexer.err
         THEN [nm |-> nm, err |-> "failed to create indexer client", calls |-> statusCall]
         ELSE IF ~net.indexerSearch
         THEN [nm |-> nm, err |-> "indexer connection test failed",
               calls |-> statusCall \o searchCall]
         ELSE [nm |-> nm, err |-> "", calls |-> statusCall \o searchCall]
    ELSE [nm |-> nm, err |-> "", calls |-> statusCall]

\* A faulty ConnectToNetwork that stores the primary client before its health
\* check; C9 tells the two apart.
ConnectToNetworkEarly(nm, networkInfo, net) ==
    LET algod == createAlgodClient(networkInfo, net.algodBuild)
        statusCall == <<Request("Connect", "algod.Status", algod.client)>>
    IN
    IF algod.err
    THEN [nm |-> nm, err |-> "failed to connect to algod", calls |-> << >>]
    ELSE IF ~net.algodStatus
    THEN [nm |-> [nm EXCEPT !.algodClient = algod.client],
          err |-> "failed to get network status", calls |-> statusCall]
    ELSE [nm |-> [algodClient |-> algod.client, indexerClient |-> NilClient,
                  currentNetwork |-> networkInfo, connected |-> TRUE],
          err |-> "", calls |-> statusCall]

\* A faulty ConnectToNetwork that keeps the indexer client of the previous
\* connection when the new one cannot be used; C10 tells the two apart.
ConnectToNetworkKeepingIndexer(nm, networkInfo, net) ==
    LET algod == createAlgodClient(networkInfo, net.algodBuild)
        indexer == createIndexerClient(networkInfo, net.indexerBuild)
        statusCall == <<Request("Connect", "algod.Status", algod.client)>>
        searchCall == <<Request("Connect", "indexer.Search", indexer.client)>>
        probed == networkInfo.IndexerURL # Empty /\ ~indexer.err
        indexerClient == IF probed /\ net.indexerSearch THEN indexer.client
                         ELSE nm.indexerClient
    IN
    IF algod.err
    THEN [nm |-> nm, err |-> "failed to connect to algod", calls |-> << >>]
    ELSE IF ~net.algodStatus
    THEN [nm |-> nm, err |-> "failed to get network status", calls |-> statusCall]
    ELSE [nm |-> [algodClient |-> algod.client, indexerClient |-> indexerClient,
                  currentNetwork |-> networkInfo, connected |-> TRUE],
          err |-> "",
          calls |-> IF probed THEN statusCall \o searchCall ELSE statusCall]

\* ConnectToNetwork: [nm, err, calls].
ConnectToNetwork(nm, networkInfo, net) ==
    LET algod == createAlgodClient(networkInfo, net.algodBuild)
        indexer == createIndexerClient(networkInfo, net.indexerBuild)
        statusCall == <<Request("Connect", "algod.Status", algod.client)>>
        searchCall == <<Request("Connect", "indexer.Search", indexer.client)>>
        probed == networkInfo.IndexerURL # Empty /\ ~indexer.err
        indexerClient == IF probed /\ net.indexerSearch THEN indexer.client ELSE NilClient
    IN
    IF algod.err
    THEN [nm |-> nm, err |-> "failed to connect to algod", calls |-> << >>]
    ELSE IF ~net.algodStatus
    THEN [nm |-> nm, err |-> "failed to get network status", calls |-> statusCall]
    ELSE [nm |-> [algodClient |-> algod.client, indexerClient |-> indexerClient,
                  currentNetwork |-> networkInfo, connected |-> TRUE],
          err |-> "",
          calls |-> IF probed THEN statusCall \o searchCall ELSE statusCall]

IsConnected(nm) == nm.connected /\ ~nm.algodClient.nil

\* What the endpoints answer during GetNetworkStatus.
StatusOk == [algodStatus |-> TRUE, algodGenesis |-> TRUE, indexerSearch |-> TRUE]

StatusOutcomes ==
    {StatusOk,
     [StatusOk EXCEPT !.algodStatus = FALSE],
     [StatusOk EXCEPT !.algodGenesis = FALSE],
     [StatusOk EXCEPT !.indexerSearch = FALSE]}

\* A faulty GetNetworkStatus without the not-connected guard; C12 tells the
\* two apart.
GetNetworkStatusUnguarded(nm, net) ==
    LET statusCall == <<Request("GetStatus", "algod.Status", nm.algodClient)>>
        none == [NetworkName |-> Empty, Connected |-> FALSE, IndexerHealthy |-> FALSE]
    IN
    IF ~net.algodStatus \/ nm.algodClient.nil
    THEN [nm |-> nm, err |-> "failed to get network status", calls |-> statusCall,
          status |-> none]
    ELSE [nm |-> nm, err |-> "", calls |-> statusCall,
          status |-> [NetworkName |-> nm.currentNetwork.Name, Connected |-> TRUE,
                      IndexerHealthy |-> FALSE]]

\* GetNetworkStatus: [nm, err, calls, status].
GetNetworkStatus(nm, net) ==
    LET statusCall == <<Request("GetStatus", "algod.Status", nm.algodClient)>>
        genesisCall == <<Request("GetStatus", "algod.Genesis", nm.algodClient)>>
        searchCall == <<Request("GetStatus", "indexer.Search", nm.indexerClient)>>
        none == [NetworkName |-> Empty, Connected |-> FALSE, IndexerHealthy |-> FALSE]
    IN
    IF ~nm.connected \/ nm.algodClient.nil
    THEN [nm |-> nm, err |-> "not connected to any network", calls |-> << >>, status |-> none]
    ELSE IF ~net.algodStatus
    THEN [nm |-> nm, err |-> "failed to get network status", calls |-> statusCall,
          status |-> none]
    ELSE IF ~net.algodGenesis
    THEN [nm |-> nm, err |-> "failed to get genesis info",
          calls |-> statusCall \o genesisCall, status |-> none]
    ELSE [nm |-> nm, err |-> "",
          calls |-> statusCall \o genesisCall \o
                    (IF nm.indexerClient.nil THEN << >> ELSE searchCall),
          status |-> [NetworkName |-> nm.currentNetwork.Name, Connected |-> TRUE,
                      IndexerHealthy |-> ~nm.indexerClient.nil /\ net.indexerSearch]]

\* A faulty Disconnect that keeps the profile of the session it ends; C11
\* tells the two apart.
DisconnectKeepingProfile(nm) ==
    [nm EXCEPT !.algodClient = NilClient, !.indexerClient = NilClient, !.connected = FALSE]

\* A faulty Disconnect that drops the clients and keeps the connected flag; C8
\* tells the two apart.
DisconnectClientsOnly(nm) ==
    [nm EXCEPT !.algodClient = NilClient, !.indexerClient = NilClient]

\* Disconnect()
Disconnect(nm) ==
    [algodClient |-> NilClient, indexerClient |-> NilClient,
     currentNetwork |-> ZeroNetworkInfo, connected |-> FALSE]

\* ------------------------------------------------------------------------
\* Key events
\* ------------------------------------------------------------------------

\* tea.KeyMsg: String() and Type, and for KeyRunes the UTF-8 bytes of Runes.
Key(str, type, runes) == [String |-> str, Type |-> type, Runes |-> runes]

RuneKey(c) == Key(c, "KeyRunes", <<c>>)

EAcuteKey == Key("e-acute", "KeyRunes", EAcute)

SpaceKey == Key(" ", "KeySpace", Empty)

\* The runes typed into text fields: an ASCII letter and a two-byte rune.
TypedKeys == {RuneKey("a"), EAcuteKey}

IsEdit(key) == key.Type = "KeyRunes" \/ key.Type = "KeyBackspace"

\* ------------------------------------------------------------------------
\* SettingsModel
\* ------------------------------------------------------------------------

\* connectionStatus: the format, the network name and the error it is built from.
Status(text, name, err) == [text |-> text, name |-> name, err |-> err]

NoStatus == Status("", Empty, "")

\* What the external calls of one event did: "none" when a call was not made,
\* "ok", or how it failed.
IoNone == [validate |-> "none", test |-> "none", connect |-> "none",
           write |-> "none", reload |-> "none"]

ErrOrOk(err) == IF err = "" THEN "ok" ELSE err

\* 0-based position of the first element of seq equal to x, -1 if none.
FirstIndex(seq, x) ==
    IF \E i \in 1..Len(seq) : seq[i] = x
    THEN (CHOOSE i \in 1..Len(seq) : seq[i] = x /\ \A j \in 1..(i - 1) : seq[j] # x) - 1
    ELSE -1

IndexOfName(names, name) == FirstIndex(names, name)

IndexOfProfile(profiles, name) ==
    FirstIndex([i \in 1..Len(profiles) |-> profiles[i].Name], name)

\* The loop of NewSettingsModel over cfg.CustomNetworks: [networks, networkInfos].
RECURSIVE MergeCustomNetworks(_, _, _)
MergeCustomNetworks(custom, networks, networkInfos) ==
    IF custom = << >> THEN [networks |-> networks, networkInfos |-> networkInfos]
    ELSE LET customNet == Head(custom) IN
         MergeCustomNetworks(
             Tail(custom),
             IF IndexOfName(networks, customNet.Name) >= 0 THEN networks
             ELSE Append(networks, customNet.Name),
             MapSet(networkInfos, customNet.Name, customNet))

\* A faulty NewSettingsModel that takes the position of the selected network
\* as the cursor even when the list does not hold it; C28 tells the two apart.
NewSettingsModelUnclamped(file, networks) ==
    LET cfg == LoadConfig(file).cfg
        merged == MergeCustomNetworks(cfg.CustomNetworks, networks, PredefinedNetworks)
        found == IndexOfName(merged.networks, cfg.Network)
    IN [config |-> cfg,
        networks |-> merged.networks,
        networkInfos |-> merged.networkInfos,
        cursor |-> found,
        editingAddr |-> FALSE,
        inputBuffer |-> Empty,
        editingNetwork |-> FALSE,
        editField |-> "",
        networkBuffer |-> ZeroNetworkInfo,
        connectionStatus |-> NoStatus,
        showStatus |-> FALSE]

\* NewSettingsModel(networks) with the configuration file as it is at startup.
NewSettingsModel(file, networks) ==
    LET cfg == LoadConfig(file).cfg
        merged == MergeCustomNetworks(cfg.CustomNetworks, networks, PredefinedNetworks)
        found == IndexOfName(merged.networks, cfg.Network)
    IN [config |-> cfg,
        networks |-> merged.networks,
        networkInfos |-> merged.networkInfos,
        cursor |-> IF found >= 0 THEN found ELSE 0,
        editingAddr |-> FALSE,
        inputBuffer |-> Empty,
        editingNetwork |-> FALSE,
        editField |-> "",
        networkBuffer |-> ZeroNetworkInfo,
        connectionStatus |-> NoStatus,
        showStatus |-> FALSE]

\* A faulty IsEditingAddr that reports the wallet mode only; C1 tells the two
\* apart.
IsEditingWallet(m) == m.editingAddr

IsEditingAddr(m) == m.editingAddr \/ m.editingNetwork

ResetEditingState(m) ==
    [m EXCEPT !.editingAddr = FALSE, !.inputBuffer = Empty, !.editingNetwork = FALSE,
              !.networkBuffer = ZeroNetworkInfo, !.showStatus = FALSE,
              !.connectionStatus = NoStatus]

refreshNetworkInfo(m, networkName) ==
    LET i == IndexOfProfile(m.config.CustomNetworks, networkName) IN
    IF i >= 0
    THEN [m EXCEPT !.networkInfos = MapSet(@, networkName, m.config.CustomNetworks[i + 1])]
    ELSE IF networkName \notin DOMAIN m.networkInfos /\ networkName \in DOMAIN PredefinedNetworks
    THEN [m EXCEPT !.networkInfos = MapSet(@, networkName, PredefinedNetworks[networkName])]
    ELSE m

Fields ==
    <<"name", "algod_url", "algod_port", "algod_token",
      "indexer_url", "indexer_port", "indexer_token">>

IndexOfField(current) == FirstIndex(Fields, current)

getNextField(current) ==
    LET i == IndexOfField(current) IN
    IF i >= 0 /\ i < Len(Fields) - 1 THEN Fields[i + 2] ELSE Fields[1]

\* A faulty getPrevField that stops at the first field instead of wrapping;
\* C15 tells the two apart.
getPrevFieldStuck(current) ==
    LET i == IndexOfField(current) IN
    IF i > 0 THEN Fields[i] ELSE Fields[1]

getPrevField(current) ==
    LET i == IndexOfField(current) IN
    IF i > 0 THEN Fields[i] ELSE Fields[Len(Fields)]

getNetworkField(buffer, field) ==
    CASE field = "name" -> buffer.Name
      [] field = "algod_url" -> buffer.AlgodURL
      [] field = "algod_port" -> buffer.AlgodPort
      [] field = "algod_token" -> buffer.AlgodToken
      [] field = "indexer_url" -> buffer.IndexerURL
      [] field = "indexer_port" -> buffer.IndexerPort
      [] field = "indexer_token" -> buffer.IndexerToken
      [] OTHER -> Empty

setNetworkField(buffer, field, value) ==
    CASE field = "name" -> [buffer EXCEPT !.Name = value]
      [] field = "algod_url" -> [buffer EXCEPT !.AlgodURL = value]
      [] field = "algod_port" -> [buffer EXCEPT !.AlgodPort = value]
      [] field = "algod_token" -> [buffer EXCEPT !.AlgodToken = value]
      [] field = "indexer_url" -> [buffer EXCEPT !.IndexerURL = value]
      [] field = "indexer_port" -> [buffer EXCEPT !.IndexerPort = value]
      [] field = "indexer_token" -> [buffer EXCEPT !.IndexerToken = value]
      [] OTHER -> buffer

\* The handlers of the Settings screen work on s = [m, nm, file, calls, io]:
\* the SettingsModel, its NetworkManager, the configuration file, the requests
\* sent to the endpoints and the outcome of the external calls so far.
\* env is what the environment answers during the event: [test, connect,
\* write, reload].

\* Another process may replace the file between SaveConfig and LoadConfig.
ReloadOutcomes == {"intact", "corrupted"}

\* A faulty upsert that replaces a profile of the list and never appends one;
\* C24 tells the two apart.
UpsertCustomNetworkReplacing(config, buffer) ==
    LET i == IndexOfProfile(config.CustomNetworks, buffer.Name) IN
    IF i >= 0
    THEN [config EXCEPT !.CustomNetworks[i + 1] = buffer]
    ELSE config

\* The upsert of saveNetworkConfig into config.CustomNetworks.
UpsertCustomNetwork(config, buffer) ==
    LET i == IndexOfProfile(config.CustomNetworks, buffer.Name) IN
    IF i >= 0
    THEN [config EXCEPT !.CustomNetworks[i + 1] = buffer]
    ELSE [config EXCEPT !.CustomNetworks = Append(@, buffer), !.IsNil = FALSE]

\* The re-merge of saveNetworkConfig after a reload.
RECURSIVE RemergeCustomNetworks(_, _)
RemergeCustomNetworks(custom, networkInfos) ==
    IF custom = << >> THEN networkInfos
    ELSE RemergeCustomNetworks(Tail(custom),
                               MapSet(networkInfos, Head(custom).Name, Head(custom)))

\* A faulty commit that appends the name without looking for it in the list;
\* C23 tells the two apart.
CommitNetworkConfigAppending(s, env) ==
    LET m == s.m
        buffer == m.networkBuffer
        existingIndex == IndexOfName(m.networks, buffer.Name)
        isNew == TRUE
        networks == IF isNew THEN Append(m.networks, buffer.Name) ELSE m.networks
        committed ==
            [m EXCEPT !.networkInfos = MapSet(@, buffer.Name, buffer),
                      !.config = UpsertCustomNetwork(@, buffer),
                      !.networks = networks,
                      !.cursor = IF isNew THEN Len(networks) - 1 ELSE existingIndex]
        saved == SaveConfig(s.file, committed.config, env.write)
        file == IF env.reload = "corrupted" THEN MalformedFile ELSE saved.file
        reloaded == LoadConfig(file)
        success == Status("Network %s saved successfully", buffer.Name, "")
    IN
    IF saved.err
    THEN [s EXCEPT !.m = [committed EXCEPT
                             !.connectionStatus = Status("Failed to save config: %v", Empty,
                                                         "failed to write config file"),
                             !.showStatus = TRUE],
                   !.file = saved.file,
                   !.io.write = env.write]
    ELSE IF reloaded.err
    THEN [s EXCEPT !.m = [committed EXCEPT !.connectionStatus = success, !.showStatus = TRUE],
                   !.file = file,
                   !.io.write = "ok",
                   !.io.reload = "failed"]
    ELSE [s EXCEPT !.m = [committed EXCEPT
                             !.config = reloaded.cfg,
                             !.networkInfos =
                                 RemergeCustomNetworks(reloaded.cfg.CustomNetworks, @),
                             !.connectionStatus = success,
                             !.showStatus = TRUE],
                   !.file = file,
                   !.io.write = "ok",
                   !.io.reload = "ok"]

\* saveNetworkConfig from "Update map immediately for UI" on.
CommitNetworkConfig(s, env) ==
    LET m == s.m
        buffer == m.networkBuffer
        existingIndex == IndexOfName(m.networks, buffer.Name)
        isNew == existingIndex < 0
        networks == IF isNew THEN Append(m.networks, buffer.Name) ELSE m.networks
        committed ==
            [m EXCEPT !.networkInfos = MapSet(@, buffer.Name, buffer),
                      !.config = UpsertCustomNetwork(@, buffer),
                      !.networks = networks,
                      !.cursor = IF isNew THEN Len(networks) - 1 ELSE existingIndex]
        saved == SaveConfig(s.file, committed.config, env.write)
        file == IF env.reload = "corrupted" THEN MalformedFile ELSE saved.file
        reloaded == LoadConfig(file)
        success == Status("Network %s saved successfully", buffer.Name, "")
    IN
    IF saved.err
    THEN [s EXCEPT !.m = [committed EXCEPT
                             !.connectionStatus = Status("Failed to save config: %v", Empty,
                                                         "failed to write config file"),
                             !.showStatus = TRUE],
                   !.file = saved.file,
                   !.io.write = env.write]
    ELSE IF reloaded.err
    THEN [s EXCEPT !.m = [committed EXCEPT !.connectionStatus = success, !.showStatus = TRUE],
                   !.file = file,
                   !.io.write = "ok",
                   !.io.reload = "failed"]
    ELSE [s EXCEPT !.m = [committed EXCEPT
                             !.config = reloaded.cfg,
                             !.networkInfos =
                                 RemergeCustomNetworks(reloaded.cfg.CustomNetworks, @),
                             !.connectionStatus = success,
                             !.showStatus = TRUE],
                   !.file = file,
                   !.io.write = "ok",
                   !.io.reload = "ok"]

\* A faulty saveNetworkConfig that updates the registry before the connection
\* test; C7 tells the two apart.
saveNetworkConfigEager(s, env) ==
    LET invalid == ValidateNetworkConfig(s.m.networkBuffer)
        test == TestNetworkConnection(s.nm, s.m.networkBuffer, env.test)
        tested == [s EXCEPT !.nm = test.nm, !.calls = @ \o test.calls,
                            !.io.validate = "ok", !.io.test = ErrOrOk(test.err),
                            !.m.networkInfos =
                                MapSet(@, s.m.networkBuffer.Name, s.m.networkBuffer)]
    IN
    IF invalid # ""
    THEN [s EXCEPT !.m.connectionStatus = Status("Validation failed: %v", Empty, invalid),
                   !.m.showStatus = TRUE,
                   !.io.validate = invalid]
    ELSE IF test.err # ""
    THEN [tested EXCEPT !.m.connectionStatus =
                            Status("Connection test failed: %v", Empty, test.err),
                        !.m.showStatus = TRUE]
    ELSE CommitNetworkConfig(tested, env)

saveNetworkConfig(s, env) ==
    LET invalid == ValidateNetworkConfig(s.m.networkBuffer)
        test == TestNetworkConnection(s.nm, s.m.networkBuffer, env.test)
        tested == [s EXCEPT !.nm = test.nm, !.calls = @ \o test.calls,
                            !.io.validate = "ok", !.io.test = ErrOrOk(test.err)]
    IN
    IF invalid # ""
    THEN [s EXCEPT !.m.connectionStatus = Status("Validation failed: %v", Empty, invalid),
                   !.m.showStatus = TRUE,
                   !.io.validate = invalid]
    ELSE IF test.err # ""
    THEN [tested EXCEPT !.m.connectionStatus =
                            Status("Connection test failed: %v", Empty, test.err),
                        !.m.showStatus = TRUE]
    ELSE CommitNetworkConfig(tested, env)

\* A faulty profile form that stays open when the save is aborted by the
\* validation or by the connection test; C27 tells the two apart.
handleNetworkEditingStaying(s, msg, env) ==
    LET m == s.m
        current == getNetworkField(m.networkBuffer, m.editField)
        saved == saveNetworkConfig(s, env)
        moved == IF msg.String = "tab"
                 THEN [m EXCEPT !.editField = getNextField(m.editField)]
                 ELSE IF msg.String = "shift+tab"
                 THEN [m EXCEPT !.editField = getPrevField(m.editField)]
                 ELSE m
    IN
    IF msg.String = "enter"
    THEN [saved EXCEPT !.m.editingNetwork = saved.io.validate # "ok" \/ saved.io.test # "ok"]
    ELSE IF msg.String = "esc"
    THEN [s EXCEPT !.m.editingNetwork = FALSE, !.m.networkBuffer = ZeroNetworkInfo]
    ELSE IF msg.Type = "KeyRunes"
    THEN [s EXCEPT !.m = [moved EXCEPT !.networkBuffer =
                              setNetworkField(@, m.editField, current \o msg.Runes)]]
    ELSE IF msg.Type = "KeyBackspace" /\ Len(current) > 0
    THEN [s EXCEPT !.m = [moved EXCEPT !.networkBuffer =
                              setNetworkField(@, m.editField, DropLastByte(current))]]
    ELSE [s EXCEPT !.m = moved]

handleNetworkEditing(s, msg, env) ==
    LET m == s.m
        current == getNetworkField(m.networkBuffer, m.editField)
        saved == saveNetworkConfig(s, env)
        moved == IF msg.String = "tab"
                 THEN [m EXCEPT !.editField = getNextField(m.editField)]
                 ELSE IF msg.String = "shift+tab"
                 THEN [m EXCEPT !.editField = getPrevField(m.editField)]
                 ELSE m
    IN
    IF msg.String = "enter"
    THEN [saved EXCEPT !.m.editingNetwork = FALSE]
    ELSE IF msg.String = "esc"
    THEN [s EXCEPT !.m.editingNetwork = FALSE, !.m.networkBuffer = ZeroNetworkInfo]
    ELSE IF msg.Type = "KeyRunes"
    THEN [s EXCEPT !.m = [moved EXCEPT !.networkBuffer =
                              setNetworkField(@, m.editField, current \o msg.Runes)]]
    ELSE IF msg.Type = "KeyBackspace" /\ Len(current) > 0
    THEN [s EXCEPT !.m = [moved EXCEPT !.networkBuffer =
                              setNetworkField(@, m.editField, DropLastByte(current))]]
    ELSE [s EXCEPT !.m = moved]

\* A faulty wallet edit whose esc keeps what was typed as the wallet address;
\* C17 tells the two apart.
handleWalletEditingKeeping(s, msg, env) ==
    LET m == s.m
        config == [m.config EXCEPT !.WalletAddr = m.inputBuffer]
        saved == SaveConfig(s.file, config, env.write)
    IN
    IF msg.String = "enter"
    THEN [s EXCEPT !.m.config = config, !.m.editingAddr = FALSE,
                   !.file = saved.file, !.io.write = env.write]
    ELSE IF msg.String = "esc"
    THEN [s EXCEPT !.m.config = config, !.m.editingAddr = FALSE, !.m.inputBuffer = Empty]
    ELSE IF msg.Type = "KeyRunes"
    THEN [s EXCEPT !.m.inputBuffer = @ \o msg.Runes]
    ELSE IF msg.Type = "KeyBackspace" /\ Len(m.inputBuffer) > 0
    THEN [s EXCEPT !.m.inputBuffer = DropLastByte(@)]
    ELSE s

\* The wallet-editing branch of SettingsModel.Update.
handleWalletEditing(s, msg, env) ==
    LET m == s.m
        config == [m.config EXCEPT !.WalletAddr = m.inputBuffer]
        saved == SaveConfig(s.file, config, env.write)
    IN
    IF msg.String = "enter"
    THEN [s EXCEPT !.m.config = config, !.m.editingAddr = FALSE,
                   !.file = saved.file, !.io.write = env.write]
    ELSE IF msg.String = "esc"
    THEN [s EXCEPT !.m.editingAddr = FALSE, !.m.inputBuffer = Empty]
    ELSE IF msg.Type = "KeyRunes"
    THEN [s EXCEPT !.m.inputBuffer = @ \o msg.Runes]
    ELSE IF msg.Type = "KeyBackspace" /\ Len(m.inputBuffer) > 0
    THEN [s EXCEPT !.m.inputBuffer = DropLastByte(@)]
    ELSE s

\* The "enter" case of the normal mode: connect to the selected network.
selectNetwork(s, env) ==
    LET m == s.m
        selectedNetwork == m.networks[m.cursor + 1]
        networkInfo == m.networkInfos[selectedNetwork]
        test == TestNetworkConnection(s.nm, networkInfo, env.test)
        tested == [s EXCEPT !.nm = test.nm, !.calls = @ \o test.calls,
                            !.io.test = ErrOrOk(test.err)]
        config == [m.config EXCEPT !.Network = selectedNetwork]
        saved == SaveConfig(s.file, config, env.write)
        conn == ConnectToNetwork(test.nm, networkInfo, env.connect)
    IN
    IF selectedNetwork \notin DOMAIN m.networkInfos THEN s
    ELSE IF test.err # ""
    THEN [tested EXCEPT !.m.connectionStatus =
                            Status("Failed to connect to %s: %v", selectedNetwork, test.err),
                        !.m.showStatus = TRUE]
    ELSE [tested EXCEPT !.m.config = config,
                        !.file = saved.file,
                        !.io.write = env.write,
                        !.nm = conn.nm,
                        !.calls = @ \o conn.calls,
                        !.io.connect = ErrOrOk(conn.err),
                        !.m.connectionStatus =
                            IF conn.err # ""
                            THEN Status("Connection failed: %v", Empty, conn.err)
                            ELSE Status("Successfully connected to %s", selectedNetwork, ""),
                        !.m.showStatus = TRUE]

\* The "t" case of the normal mode: test the selected network.
testNetwork(s, env) ==
    LET m == s.m
        selectedNetwork == m.networks[m.cursor + 1]
        networkInfo == m.networkInfos[selectedNetwork]
        test == TestNetworkConnection(s.nm, networkInfo, env.test)
    IN
    IF selectedNetwork \notin DOMAIN m.networkInfos THEN s
    ELSE [s EXCEPT !.nm = test.nm, !.calls = @ \o test.calls,
                   !.io.test = ErrOrOk(test.err),
                   !.m.connectionStatus =
                       IF test.err # ""
                       THEN Status("Test failed for %s: %v", selectedNetwork, test.err)
                       ELSE Status("Test successful for %s", selectedNetwork, ""),
                   !.m.showStatus = TRUE]

\* A faulty normal mode whose "e" opens the wallet edit and leaves the profile
\* form open behind it; C16 tells the two apart.
handleBrowsingBothModes(s, msg, env) ==
    IF msg.String = "e"
    THEN [s EXCEPT !.m.editingAddr = TRUE, !.m.inputBuffer = s.m.config.WalletAddr,
                   !.m.editingNetwork = TRUE, !.m.networkBuffer = NewCustomNetwork,
                   !.m.editField = "name"]
    ELSE s

\* The normal (browsing) mode of SettingsModel.Update.
handleBrowsing(s, msg, env) ==
    LET m == s.m
        hidden == [m EXCEPT !.showStatus = FALSE, !.connectionStatus = NoStatus]
        currentNetworkName == m.networks[m.cursor + 1]
    IN
    CASE msg.String = "up" ->
            IF m.cursor > 0 THEN [s EXCEPT !.m = [hidden EXCEPT !.cursor = @ - 1]] ELSE s
      [] msg.String = "down" ->
            IF m.cursor < Len(m.networks) - 1
            THEN [s EXCEPT !.m = [hidden EXCEPT !.cursor = @ + 1]] ELSE s
      [] msg.String = "enter" -> selectNetwork(s, env)
      [] msg.String = "t" -> testNetwork(s, env)
      [] msg.String = " " -> IF m.showStatus THEN [s EXCEPT !.m = hidden] ELSE s
      [] msg.String = "e" ->
            [s EXCEPT !.m.editingAddr = TRUE, !.m.inputBuffer = m.config.WalletAddr]
      [] msg.String = "n" ->
            IF currentNetworkName \in DOMAIN m.networkInfos
            THEN [s EXCEPT !.m = [hidden EXCEPT
                                     !.editingNetwork = TRUE,
                                     !.networkBuffer = m.networkInfos[currentNetworkName],
                                     !.editField = "algod_url"]]
            ELSE s
      [] msg.String = "c" ->
            [s EXCEPT !.m = [hidden EXCEPT !.editingNetwork = TRUE,
                                           !.networkBuffer = NewCustomNetwork,
                                           !.editField = "name"]]
      [] OTHER -> s

\* SettingsModel.Update for a key message.
SettingsUpdate(s, msg, env) ==
    IF s.m.editingNetwork THEN handleNetworkEditing(s, msg, env)
    ELSE IF s.m.editingAddr THEN handleWalletEditing(s, msg, env)
    ELSE handleBrowsing(s, msg, env)

\* SettingsModel.View: the network panel refreshes the registry entry under
\* the cursor; the wallet panel queries the status of a live session and only
\* displays the answer, whatever it is.
renderNetworkSection(s) ==
    IF ~s.m.editingNetwork /\ s.m.cursor < Len(s.m.networks)
    THEN [s EXCEPT !.m = refreshNetworkInfo(@, s.m.networks[s.m.cursor + 1])]
    ELSE s

renderWalletSection(s) ==
    IF ~s.m.editingAddr /\ IsConnected(s.nm)
    THEN [s EXCEPT !.nm = GetNetworkStatus(s.nm, StatusOk).nm]
    ELSE s

SettingsView(s) == renderWalletSection(renderNetworkSection(s))

\* ------------------------------------------------------------------------
\* ProjectModel
\* ------------------------------------------------------------------------

Options == <<"Settings", "Applications", "Commands Goals", "Explore">>

\* NewProjectModel()
NewProjectModel == [Cursor |-> 0, Selected |-> {}]

\* ProjectModel.Update: [pm, cmd].
ProjectUpdate(pm, msg) ==
    CASE msg.String \in {"ctrl+c", "q"} -> [pm |-> pm, cmd |-> "quit"]
      [] msg.String \in {"up", "k"} ->
            [pm |-> IF pm.Cursor > 0 THEN [pm EXCEPT !.Cursor = @ - 1] ELSE pm, cmd |-> "nil"]
      [] msg.String \in {"down", "j"} ->
            [pm |-> IF pm.Cursor < Len(Options) - 1 THEN [pm EXCEPT !.Cursor = @ + 1] ELSE pm,
             cmd |-> "nil"]
      [] msg.String \in {"enter", " "} ->
            [pm |-> [pm EXCEPT !.Selected = {pm.Cursor}], cmd |-> "nil"]
      [] OTHER -> [pm |-> pm, cmd |-> "nil"]

\* ------------------------------------------------------------------------
\* GOALModel and the payment builder
\* ------------------------------------------------------------------------

NumFields == 11
NumBuilders == 6

Field(value, cursor) == [Value |-> value, Cursor |-> cursor]

\* Field.InsertRune for the UTF-8 bytes of one rune (MaxLen is never set).
InsertRune(f, runeBytes) ==
    Field(SubSeq(f.Value, 1, f.Cursor) \o runeBytes \o DropFirst(f.Value, f.Cursor),
          f.Cursor + 1)

\* Field.Backspace
Backspace(f) ==
    IF f.Cursor = 0 \/ Len(f.Value) = 0 THEN f
    ELSE Field(SubSeq(f.Value, 1, f.Cursor - 1) \o DropFirst(f.Value, f.Cursor), f.Cursor - 1)

MoveLeft(f) == IF f.Cursor > 0 THEN [f EXCEPT !.Cursor = @ - 1] ELSE f

MoveRight(f) == IF f.Cursor < Len(f.Value) THEN [f EXCEPT !.Cursor = @ + 1] ELSE f

Digits == {"0", "1", "2", "3", "4", "5", "6", "7", "8", "9"}

\* strconv.ParseUint(s, 10, 64) succeeds; values past 2^64 - 1 need 20 digits
\* and more, which no field of the model reaches.
ParsesAsUint(s) == s # Empty /\ \A i \in 1..Len(s) : s[i] \in Digits

\* PaymentBuilder.Validate: the error text, "" for nil.
Validate(fields) ==
    IF TrimSpace(fields[2].Value) = Empty THEN "recipient (-t) is required"
    ELSE IF ~ParsesAsUint(TrimSpace(fields[3].Value))
    THEN "amount (-a) must be a positive integer uAlgos"
    ELSE ""

\* NewGOALModel(): the list cursor, the payment form and its output.
NewGOALModel ==
    [nav |-> 0,
     fields |-> [i \in 1..NumFields |-> Field(Empty, 0)],
     idx |-> 0,
     status |-> "",
     ran |-> FALSE]

\* GOALModel.run and PaymentBuilder.AfterRun: the command runs and its result
\* becomes the status.
RunOutcomes == {"stdout", "Error"}

\* PaymentBuilder.Update
PaymentUpdate(g, msg, run) ==
    LET i == g.idx + 1
        invalid == Validate(g.fields)
        handled ==
            CASE msg.String \in {"tab", "down"} -> [g EXCEPT !.idx = (@ + 1) % NumFields]
              [] msg.String \in {"shift+tab", "up"} ->
                    [g EXCEPT !.idx = (@ - 1 + NumFields) % NumFields]
              [] msg.String = "left" -> [g EXCEPT !.fields[i] = MoveLeft(@)]
              [] msg.String = "right" -> [g EXCEPT !.fields[i] = MoveRight(@)]
              [] msg.String = "backspace" -> [g EXCEPT !.fields[i] = Backspace(@)]
              [] msg.String = "enter" ->
                    IF invalid # "" THEN [g EXCEPT !.status = "Validation: " \o invalid]
                    ELSE [g EXCEPT !.status = run, !.ran = TRUE]
              [] OTHER -> g
    IN
    IF msg.Type = "KeyRunes"
    THEN [handled EXCEPT !.fields[handled.idx + 1] = InsertRune(@, msg.Runes)]
    ELSE handled

\* GOALModel.Update: [gm, cmd].
GOALUpdate(g, msg, run) ==
    LET fresh == [g EXCEPT !.ran = FALSE] IN
    CASE msg.String \in {"ctrl+c", "esc"} -> [gm |-> fresh, cmd |-> "quit"]
      [] msg.String = "up" ->
            [gm |-> IF g.nav > 0 THEN [fresh EXCEPT !.nav = @ - 1] ELSE fresh, cmd |-> "nil"]
      [] msg.String = "down" ->
            [gm |-> IF g.nav < NumBuilders - 1 THEN [fresh EXCEPT !.nav = @ + 1] ELSE fresh,
             cmd |-> "nil"]
      [] OTHER ->
            [gm |-> IF g.nav = 0 THEN PaymentUpdate(fresh, msg, run) ELSE fresh,
             cmd |-> "nil"]

\* ------------------------------------------------------------------------
\* ApplicationsModel and ExploreModel
\* ------------------------------------------------------------------------

\* Update of a screen that keeps no state the navigation reads: the command
\* it returns.
LeafUpdate(msg) == IF msg.String = "ctrl+c" THEN "quit" ELSE "nil"

\* ------------------------------------------------------------------------
\* MainModel: the state of the program
\* ------------------------------------------------------------------------

VARIABLES
    CurrentState,       \* MainModel.CurrentState
    ProjectModel,       \* MainModel.ProjectModel
    SettingsModel,      \* MainModel.SettingsModel
    networkManager,     \* SettingsModel.networkManager
    CmdGoalsModel,      \* MainModel.CmdGoalsModel
    configFile,         \* the file at ConfigPath()
    msg,                \* the key message of the last event
    cmd,                \* the command MainModel.Update returned for it
    calls,              \* the requests its Update sent to the endpoints
    io,                 \* the outcome of its external calls
    request,            \* the last call made on the NetworkManager directly
    edits,              \* text-editing keystrokes delivered so far
    trips               \* events so far that reached outside the process

vars == <<CurrentState, ProjectModel, SettingsModel, networkManager, CmdGoalsModel,
          configFile, msg, cmd, calls, io, request, edits, trips>>

LeafStates == {"SettingsView", "ApplicationsView", "CmdGoalsView", "ExploreView"}

NoKey == Key("", "", Empty)

\* A call on the NetworkManager: the method, its argument, what the endpoints
\* answered, the error returned ("" for nil) and the status returned.
NoStatusInfo == [NetworkName |-> Empty, Connected |-> FALSE, IndexerHealthy |-> FALSE]

NoRequest == [op |-> "", networkInfo |-> ZeroNetworkInfo, net |-> NetOk, err |-> "",
              status |-> NoStatusInfo]

\* A user-defined profile as a configuration file may hold it.
ShortProfile == NetworkInfo(<<"x">>, <<"u">>, <<"p">>, Empty, Empty, Empty, Empty)

\* A configuration file of an earlier run that saved ShortProfile and selected it.
ProfileFile == File("json", <<"x">>, Empty, <<ShortProfile>>, TRUE)

\* A hand-written configuration file without the custom_networks member.
BareFile == File("json", Mainnet, <<"W">>, << >>, FALSE)

\* NewMainModel() when the configuration file is file.
Start(file) ==
    /\ configFile = file
    /\ CurrentState = "MainView"
    /\ ProjectModel = NewProjectModel
    /\ SettingsModel = NewSettingsModel(file, <<Localnet, Testnet, Mainnet>>)
    /\ networkManager = NewNetworkManager
    /\ CmdGoalsModel = NewGOALModel
    /\ msg = NoKey
    /\ cmd = "nil"
    /\ calls = << >>
    /\ io = IoNone
    /\ request = NoRequest
    /\ edits = 0
    /\ trips = 0

\* What the environment answers during one event.
Env(test, connect, write, reload) ==
    [test |-> test, connect |-> connect, write |-> write, reload |-> reload]

\* The Settings screen as the handlers see it.
Settings == [m |-> SettingsModel, nm |-> networkManager, file |-> configFile,
             calls |-> << >>, io |-> IoNone]

\* The program runs until a quit command is returned; text-editing keystrokes
\* and events that reach outside the process (the endpoints, the file, the
\* goal command) are delivered while their budgets last.
Deliverable(key, editing, outside) ==
    /\ cmd # "quit"
    /\ (editing /\ IsEdit(key)) => edits < MaxEdits
    /\ outside => trips < MaxTrips

Delivered(key, editing, outside) ==
    /\ msg' = key
    /\ edits' = IF editing /\ IsEdit(key) THEN edits + 1 ELSE edits
    /\ trips' = IF outside THEN trips + 1 ELSE trips
    /\ UNCHANGED request

Enter == Key("enter", "KeyEnter", Empty)
Esc == Key("esc", "KeyEsc", Empty)
CtrlC == Key("ctrl+c", "KeyCtrlC", Empty)
Up == Key("up", "KeyUp", Empty)
Down == Key("down", "KeyDown", Empty)
Tab == Key("tab", "KeyTab", Empty)
ShiftTab == Key("shift+tab", "KeyShiftTab", Empty)
BackspaceKey == Key("backspace", "KeyBackspace", Empty)

\* The keys delivered to each screen: the keys the screen binds and one it
\* does not. Tab and ShiftTab, which walk the field ring of the profile form,
\* are left to the specifications about the ring.
MainKeys == {Enter, Esc, CtrlC, RuneKey("q"), RuneKey("a")}

ProjectKeys ==
    {Enter, Esc, CtrlC, Up, Down, SpaceKey, RuneKey("q"), RuneKey("k"), RuneKey("j"),
     RuneKey("a")}

BrowsingKeys ==
    {Enter, Esc, CtrlC, Up, Down, SpaceKey, RuneKey("t"), RuneKey("e"), RuneKey("n"),
     RuneKey("c"), RuneKey("a")}

WalletKeys == {Enter, Esc, CtrlC, BackspaceKey} \cup TypedKeys

ProfileKeys == {Enter, Esc, CtrlC, BackspaceKey} \cup TypedKeys

GoalKeys == {Enter, Esc, CtrlC, BackspaceKey} \cup TypedKeys

LeafKeys == {Enter, Esc, CtrlC, RuneKey("a")}

\* MainModel.Update, case MainView.
UpdateMainView(keys) ==
    \E key \in keys :
        /\ CurrentState = "MainView"
        /\ Deliverable(key, FALSE, FALSE)
        /\ Delivered(key, FALSE, FALSE)
        /\ ProjectModel' = [Cursor |-> 0, Selected |-> {}]
        /\ CurrentState' = IF key.String = "enter" THEN "ProjectView" ELSE CurrentState
        /\ cmd' = IF key.String \in {"ctrl+c", "q"} THEN "quit" ELSE "nil"
        /\ calls' = << >>
        /\ io' = IoNone
        /\ UNCHANGED <<SettingsModel, networkManager, CmdGoalsModel, configFile>>

\* A faulty switch over the selected option that opens Explore for
\* "Applications"; C3 tells the two apart.
ScreenOfShifted(option) ==
    CASE option = "Settings" -> "SettingsView"
      [] option = "Applications" -> "ExploreView"
      [] option = "Commands Goals" -> "CmdGoalsView"
      [] option = "Explore" -> "ExploreView"

\* The screen an option of the project menu leads to.
ScreenOf(option) ==
    CASE option = "Settings" -> "SettingsView"
      [] option = "Applications" -> "ApplicationsView"
      [] option = "Commands Goals" -> "CmdGoalsView"
      [] option = "Explore" -> "ExploreView"

\* MainModel.Update, case ProjectView; the Settings screen is drawn (View) when
\* it is entered.
UpdateProjectView(keys) ==
    \E key \in keys : \E updated \in {ProjectUpdate(ProjectModel, key)} :
        LET selected == Cardinality(updated.pm.Selected) = 1
            option == Options[(CHOOSE i \in updated.pm.Selected : TRUE) + 1]
        IN
        /\ CurrentState = "ProjectView"
        /\ Deliverable(key, FALSE, FALSE)
        /\ Delivered(key, FALSE, FALSE)
        /\ calls' = << >>
        /\ io' = IoNone
        /\ UNCHANGED <<networkManager, CmdGoalsModel, configFile>>
        /\ IF key.String = "esc"
           THEN /\ CurrentState' = "MainView"
                /\ ProjectModel' = [ProjectModel EXCEPT !.Selected = {}]
                /\ cmd' = "nil"
                /\ UNCHANGED SettingsModel
           ELSE /\ cmd' = updated.cmd
                /\ IF selected
                   THEN /\ CurrentState' = ScreenOf(option)
                        /\ ProjectModel' = [updated.pm EXCEPT !.Selected = {}]
                        /\ SettingsModel' =
                               IF option = "Settings"
                               THEN SettingsView([Settings EXCEPT
                                                     !.m = ResetEditingState(@)]).m
                               ELSE SettingsModel
                   ELSE /\ ProjectModel' = updated.pm
                        /\ UNCHANGED <<CurrentState, SettingsModel>>

\* The environments of an event on the Settings screen: an answer nobody asks
\* for is left at its default.
SettingsEnvs(key, nets, writes, reloads) ==
    LET m == SettingsModel
        enter == key.String = "enter"
        tests == IF (enter /\ ~m.editingAddr) \/ (key.String = "t" /\ ~IsEditingAddr(m))
                 THEN nets ELSE {NetOk}
        connects == IF enter /\ ~IsEditingAddr(m) THEN nets ELSE {NetOk}
        ws == IF enter THEN writes ELSE {"ok"}
        rs == IF enter /\ m.editingNetwork THEN reloads ELSE {"intact"}
        all == {Env(t, c, w, r) : t \in tests, c \in connects, w \in ws, r \in rs}
    IN {e \in all :
           /\ (e.test # NetOk /\ ~m.editingAddr) =>
                  (e.connect = NetOk /\ e.write = "ok" /\ e.reload = "intact")
           /\ e.write # "ok" => e.reload = "intact"}

\* MainModel.Update, case SettingsView, for one key and one environment: the
\* screen after Update and, unless the key leaves the screen, after View.
MainUpdateSettings(s, key, env) ==
    LET updated == SettingsUpdate(s, key, env) IN
    IF key.String = "esc" /\ ~IsEditingAddr(s.m)
    THEN [updated EXCEPT !.m = ResetEditingState(@)]
    ELSE SettingsView(updated)

\* MainModel.Update, case SettingsView.
UpdateSettingsView(browsing, wallet, profile, nets, writes, reloads) ==
    LET wasEditingAddr == IsEditingAddr(SettingsModel) IN
    /\ CurrentState = "SettingsView"
    /\ \E key \in IF SettingsModel.editingNetwork THEN profile
                  ELSE IF SettingsModel.editingAddr THEN wallet ELSE browsing :
        LET outside == key.String = "enter" \/ (key.String = "t" /\ ~wasEditingAddr) IN
        /\ Deliverable(key, wasEditingAddr, outside)
        /\ Delivered(key, wasEditingAddr, outside)
        /\ CurrentState' = IF key.String = "esc" /\ ~wasEditingAddr
                           THEN "ProjectView" ELSE CurrentState
        /\ cmd' = "nil"
        /\ UNCHANGED <<ProjectModel, CmdGoalsModel>>
        /\ \E env \in SettingsEnvs(key, nets, writes, reloads) :
           \E shown \in {MainUpdateSettings(Settings, key, env)} :
               /\ SettingsModel' = shown.m
               /\ networkManager' = shown.nm
               /\ configFile' = shown.file
               /\ calls' = shown.calls
               /\ io' = shown.io

\* MainModel.Update, case ApplicationsView.
UpdateApplicationsView(keys) ==
    \E key \in keys :
        /\ CurrentState = "ApplicationsView"
        /\ Deliverable(key, FALSE, FALSE)
        /\ Delivered(key, FALSE, FALSE)
        /\ CurrentState' = IF key.String = "esc" THEN "ProjectView" ELSE CurrentState
        /\ cmd' = IF key.String = "esc" THEN "nil" ELSE LeafUpdate(key)
        /\ calls' = << >>
        /\ io' = IoNone
        /\ UNCHANGED <<ProjectModel, SettingsModel, networkManager, CmdGoalsModel, configFile>>

\* MainModel.Update, case CmdGoalsView.
UpdateCmdGoalsView(keys) ==
    /\ CurrentState = "CmdGoalsView"
    /\ \E key \in keys : \E run \in IF key.String = "enter" THEN RunOutcomes ELSE {"stdout"} :
       \E updated \in {GOALUpdate(CmdGoalsModel, key, run)} :
        /\ Deliverable(key, TRUE, key.String = "enter")
        /\ Delivered(key, TRUE, key.String = "enter")
        /\ calls' = << >>
        /\ io' = IoNone
        /\ UNCHANGED <<ProjectModel, SettingsModel, networkManager, configFile>>
        /\ IF key.String = "esc"
           THEN /\ CurrentState' = "ProjectView"
                /\ cmd' = "nil"
                /\ UNCHANGED CmdGoalsModel
           ELSE /\ CmdGoalsModel' = updated.gm
                /\ cmd' = updated.cmd
                /\ UNCHANGED CurrentState

\* MainModel.Update, case ExploreView.
UpdateExploreView(keys) ==
    \E key \in keys :
        /\ CurrentState = "ExploreView"
        /\ Deliverable(key, FALSE, FALSE)
        /\ Delivered(key, FALSE, FALSE)
        /\ CurrentState' = IF key.String = "esc" THEN "ProjectView" ELSE CurrentState
        /\ cmd' = IF key.String = "esc" THEN "nil" ELSE LeafUpdate(key)
        /\ calls' = << >>
        /\ io' = IoNone
        /\ UNCHANGED <<ProjectModel, SettingsModel, networkManager, CmdGoalsModel, configFile>>

\* ------------------------------------------------------------------------
\* Spec: the whole program, started without a configuration file, while no
\* endpoint can be reached.
\* ------------------------------------------------------------------------

Unreachable == {[NetOk EXCEPT !.algodStatus = FALSE]}

Init == Start(MissingFile)

Next ==
    \/ UpdateMainView(MainKeys)
    \/ UpdateProjectView(ProjectKeys)
    \/ UpdateSettingsView(BrowsingKeys, WalletKeys, ProfileKeys, Unreachable, {"ok"},
                          {"intact"})
    \/ UpdateApplicationsView(LeafKeys)
    \/ UpdateCmdGoalsView(GoalKeys)
    \/ UpdateExploreView(LeafKeys)

Spec == Init /\ [][Next]_vars

\* ------------------------------------------------------------------------
\* SettingsSpec: the Settings screen, reached through the menus, while the
\* endpoints and the file system answer in every way.
\* ------------------------------------------------------------------------

\* Profiles of a hand-edited file that ValidateNetworkConfig rejects.
NoNameProfile == NetworkInfo(Empty, <<"u">>, <<"p">>, Empty, Empty, Empty, Empty)
NoPortProfile == NetworkInfo(<<"y">>, <<"u">>, Empty, Empty, Empty, Empty, Empty)
NoIndexerPortProfile == NetworkInfo(<<"z">>, <<"u">>, <<"p">>, Empty, <<"i">>, Empty, Empty)

HandEditedFile ==
    File("json", Testnet, Empty, <<NoNameProfile, NoPortProfile, NoIndexerPortProfile>>, TRUE)

SettingsFiles == {MissingFile, MalformedFile, BareFile, ProfileFile, HandEditedFile}

SettingsInit == \E file \in SettingsFiles : Start(file)

SettingsNext ==
    \/ UpdateMainView({Enter})
    \/ UpdateProjectView({Enter})
    \/ UpdateSettingsView(BrowsingKeys \ {CtrlC, RuneKey("a")}, WalletKeys \ {CtrlC},
                          ProfileKeys \ {CtrlC}, NetOutcomes, WriteOutcomes, ReloadOutcomes)

SettingsSpec == SettingsInit /\ [][SettingsNext]_vars

\* ------------------------------------------------------------------------
\* FormSpec: the three modes of the Settings screen with every key of the
\* profile form, Tab and ShiftTab included, while the endpoints either answer
\* or cannot be reached.
\* ------------------------------------------------------------------------

FormKeys == {Enter, Esc, Tab, ShiftTab, BackspaceKey} \cup TypedKeys

FormInit == \E file \in {MissingFile, BareFile} : Start(file)

FormNext ==
    \/ UpdateMainView({Enter})
    \/ UpdateProjectView({Enter})
    \/ UpdateSettingsView({RuneKey("n"), RuneKey("c"), RuneKey("e"), Down},
                          {Esc, RuneKey("a")}, FormKeys, {NetOk} \cup Unreachable, {"ok"},
                          {"intact"})

FormSpec == FormInit /\ [][FormNext]_vars

\* ------------------------------------------------------------------------
\* ResumedSpec: SettingsSpec continued after an earlier part of the same run
\* in which the endpoints answered: the user saved the profile the "c" key
\* proposes, selected mainnet and went back to the main screen.
\* ------------------------------------------------------------------------

\* The configuration file that part of the run left behind.
ResumedFile == File("json", Mainnet, Empty, <<NewCustomNetwork>>, TRUE)

\* The Settings screen holds what it read back from that file, its form is
\* still on the field "c" put it on, and the session is the one the selection
\* opened.
ResumedInit ==
    /\ configFile = ResumedFile
    /\ CurrentState = "MainView"
    /\ ProjectModel = NewProjectModel
    /\ SettingsModel = [NewSettingsModel(ResumedFile, <<Localnet, Testnet, Mainnet>>)
                            EXCEPT !.editField = "name"]
    /\ networkManager = ConnectToNetwork(NewNetworkManager, MainnetInfo, NetOk).nm
    /\ CmdGoalsModel = NewGOALModel
    /\ msg = Esc
    /\ cmd = "nil"
    /\ calls = << >>
    /\ io = IoNone
    /\ request = NoRequest
    /\ edits = 0
    /\ trips = 0

ResumedSpec == ResumedInit /\ [][SettingsNext]_vars

\* ------------------------------------------------------------------------
\* GoalSpec: the payment form of the Commands Goals screen, reached through
\* the menus, with the keys that walk its fields and type digits into them.
\* ------------------------------------------------------------------------

GoalNext ==
    \/ UpdateMainView({Enter})
    \/ UpdateProjectView({Enter, Down})
    \/ UpdateCmdGoalsView({Enter, Esc, Tab, BackspaceKey, RuneKey("a"), RuneKey("0"),
                           RuneKey("1")})

GoalSpec == Init /\ [][GoalNext]_vars

\* ------------------------------------------------------------------------
\* NmSpec: the NetworkManager alone, its methods called in any order with
\* any profile while the endpoints answer in every way.
\* ------------------------------------------------------------------------

SessionProfiles == {LocalnetInfo, TestnetInfo, ShortProfile, NewCustomNetwork}

AllNetOutcomes ==
    [algodBuild : BOOLEAN, algodStatus : BOOLEAN, indexerBuild : BOOLEAN,
     indexerSearch : BOOLEAN]

\* One call: the session and the log after it.
Called(op, networkInfo, net, result, status) ==
    /\ networkManager' = result.nm
    /\ calls' = result.calls
    /\ request' = [op |-> op, networkInfo |-> networkInfo, net |-> net, err |-> result.err,
                   status |-> status]
    /\ UNCHANGED <<CurrentState, ProjectModel, SettingsModel, CmdGoalsModel, configFile,
                   msg, cmd, io, edits, trips>>

CallConnect ==
    \E networkInfo \in SessionProfiles : \E net \in AllNetOutcomes :
        Called("Connect", networkInfo, net,
               ConnectToNetwork(networkManager, networkInfo, net), NoStatusInfo)

CallTestConnection ==
    \E networkInfo \in SessionProfiles : \E net \in AllNetOutcomes :
        Called("TestConnection", networkInfo, net,
               TestNetworkConnection(networkManager, networkInfo, net), NoStatusInfo)

CallDisconnect ==
    Called("Disconnect", ZeroNetworkInfo, NetOk,
           [nm |-> Disconnect(networkManager), err |-> "", calls |-> << >>], NoStatusInfo)

CallGetStatus ==
    \E net \in StatusOutcomes : \E result \in {GetNetworkStatus(networkManager, net)} :
        Called("GetStatus", ZeroNetworkInfo, net, result, result.status)

NmNext == CallConnect \/ CallTestConnection \/ CallDisconnect \/ CallGetStatus

NmSpec == Init /\ [][NmNext]_vars

\* ------------------------------------------------------------------------
\* AddressSpec: createAlgodClient and createIndexerClient called with one URL
\* and one port for both endpoints.
\* ------------------------------------------------------------------------

\* URLs with and without leading blank, scheme, embedded port and trailing
\* slashes or blank.
AddressUrls ==
    {lead \o scheme \o <<"h">> \o embedded \o trail :
        lead \in {Empty, <<" ">>},
        scheme \in {Empty, <<"h", "t", "t", "p">> \o SchemeSep,
                    <<"h", "t", "t", "p", "s">> \o SchemeSep},
        embedded \in {Empty, <<":", "9">>},
        trail \in {Empty, <<"/">>, <<"/", "/">>, <<" ">>, <<"/", " ">>}}

AddressPorts == {Empty, Port80, Port443, Port4001}

\* Both clients are built for a profile; the log holds the address each
\* MakeClient was handed.
BuildClients ==
    \E url \in AddressUrls : \E port \in AddressPorts :
        LET networkInfo == NetworkInfo(<<"x">>, url, port, Empty, url, port, Empty)
            algod == createAlgodClient(networkInfo, TRUE)
            indexer == createIndexerClient(networkInfo, TRUE)
        IN Called("Build", networkInfo, NetOk,
                  [nm |-> networkManager, err |-> "",
                   calls |-> <<Request("Build", "algod.MakeClient", algod.client),
                               Request("Build", "indexer.MakeClient", indexer.client)>>],
                  NoStatusInfo)

AddressSpec == Init /\ [][BuildClients]_vars

\* ------------------------------------------------------------------------
\* Properties of the navigation (checked under Spec)
\* ------------------------------------------------------------------------

\* C1: while SettingsView is the active screen, an esc pressed in a nested
\* edit mode (wallet edit or profile form) is consumed by the screen, which
\* leaves that mode, and SettingsView stays active; an esc pressed in no edit
\* mode moves to ProjectView. The mode is the one before the key is delivered.
C1_EscInSettings ==
    [][(CurrentState = "SettingsView" /\ msg' = Esc) =>
          IF SettingsModel.editingAddr \/ SettingsModel.editingNetwork
          THEN /\ CurrentState' = "SettingsView"
               /\ ~SettingsModel'.editingAddr
               /\ ~SettingsModel'.editingNetwork
          ELSE CurrentState' = "ProjectView"]_vars

\* An esc was consumed by the Settings screen.
C1_EscConsumed == CurrentState = "SettingsView" /\ msg = Esc

\* C2: ctrl+c is accepted in every navigation state: whatever screen and mode
\* receives it, the quit command is issued.
C2_QuitAccepted == msg = CtrlC => cmd = "quit"

\* C3: the active screen starts as MainView and changes only from MainView to
\* ProjectView on enter, from ProjectView to MainView on esc, from ProjectView
\* to the leaf whose label is under the cursor when it is selected, and from
\* a leaf to ProjectView on esc.
C3_Edges ==
    /\ CurrentState = "MainView"
    /\ [][\/ CurrentState' = CurrentState
          \/ /\ CurrentState = "MainView"
             /\ CurrentState' = "ProjectView"
             /\ msg' = Enter
          \/ /\ CurrentState = "ProjectView"
             /\ CurrentState' = "MainView"
             /\ msg' = Esc
          \/ /\ CurrentState = "ProjectView"
             /\ msg' \in {Enter, SpaceKey}
             /\ <<Options[ProjectModel.Cursor + 1], CurrentState'>> \in
                    {<<"Settings", "SettingsView">>, <<"Applications", "ApplicationsView">>,
                     <<"Commands Goals", "CmdGoalsView">>, <<"Explore", "ExploreView">>}
          \/ /\ CurrentState \in LeafStates
             /\ CurrentState' = "ProjectView"
             /\ msg' = Esc]_vars

\* The Applications screen was left for the project menu.
C3_BackFromApplications ==
    CurrentState = "ProjectView" /\ msg = Esc /\ ProjectModel.Cursor = 1

\* C4: selecting an entry of the project menu activates its screen with the
\* editing state of that screen reset: no editing flag set, no text left in an
\* input buffer, whatever was typed on an earlier visit.
C4_LeafEnteredReset ==
    [][(CurrentState = "ProjectView" /\ CurrentState' \in LeafStates) =>
          /\ CurrentState' = "SettingsView" =>
                 /\ ~SettingsModel'.editingAddr
                 /\ ~SettingsModel'.editingNetwork
                 /\ SettingsModel'.inputBuffer = Empty
                 /\ SettingsModel'.networkBuffer = ZeroNetworkInfo
          /\ CurrentState' = "CmdGoalsView" =>
                 \A i \in 1..NumFields : CmdGoalsModel'.fields[i].Value = Empty]_vars

\* ------------------------------------------------------------------------
\* Properties of the profile save (checked under SettingsSpec)
\* ------------------------------------------------------------------------

\* The step is a save of the profile form: enter pressed in the form.
SaveStep == CurrentState = "SettingsView" /\ SettingsModel.editingNetwork /\ msg' = Enter

\* C5: after a save of the form buffer named p that passed validation, passed
\* the connection test and was written and read back, the registry maps p to
\* the buffered values, the name list holds p exactly once, and loading the
\* configuration file yields a user-defined profile p with the same values.
C5_SaveStoresProfile ==
    [][(SaveStep /\ io'.write = "ok" /\ io'.reload = "ok") =>
          LET buffer == SettingsModel.networkBuffer
              p == buffer.Name
              networks == SettingsModel'.networks
              loaded == LoadConfig(configFile').cfg.CustomNetworks
          IN /\ p \in DOMAIN SettingsModel'.networkInfos
             /\ SettingsModel'.networkInfos[p] = buffer
             /\ Cardinality({i \in 1..Len(networks) : networks[i] = p}) = 1
             /\ \E i \in 1..Len(loaded) : loaded[i].Name = p /\ loaded[i] = buffer]_vars

\* C6: a save of a buffer whose name, algod URL or algod port is empty, or
\* whose indexer URL is set while its indexer port is empty, fails validation:
\* no connection test runs and the registry, the name list and the
\* configuration file stay as they were.
C6_InvalidSaveRejected ==
    [][(/\ SaveStep
        /\ \/ SettingsModel.networkBuffer.Name = Empty
           \/ SettingsModel.networkBuffer.AlgodURL = Empty
           \/ SettingsModel.networkBuffer.AlgodPort = Empty
           \/ /\ SettingsModel.networkBuffer.IndexerURL # Empty
              /\ SettingsModel.networkBuffer.IndexerPort = Empty) =>
          /\ io'.validate \notin {"none", "ok"}
          /\ io'.test = "none"
          /\ calls' = << >>
          /\ SettingsModel'.connectionStatus.text = "Validation failed: %v"
          /\ SettingsModel'.networkInfos = SettingsModel.networkInfos
          /\ SettingsModel'.networks = SettingsModel.networks
          /\ configFile' = configFile]_vars

\* A save was rejected for an indexer URL without a port.
C6_IndexerPortMissing ==
    /\ msg = Enter
    /\ io.validate = "indexer port required when indexer URL is provided"
    /\ SettingsModel.networkBuffer.IndexerURL # Empty

\* C7: a save that passes validation and whose connection test fails is
\* aborted: the registry, the name list, the cursor, the configuration in
\* memory and the configuration file stay as they were, and a connection-test
\* error is shown.
C7_FailedTestAborts ==
    [][(SaveStep /\ io'.validate = "ok" /\ io'.test \notin {"none", "ok"}) =>
          /\ SettingsModel'.networkInfos = SettingsModel.networkInfos
          /\ SettingsModel'.networks = SettingsModel.networks
          /\ SettingsModel'.cursor = SettingsModel.cursor
          /\ SettingsModel'.config = SettingsModel.config
          /\ configFile' = configFile
          /\ SettingsModel'.showStatus
          /\ SettingsModel'.connectionStatus =
                 Status("Connection test failed: %v", Empty, io'.test)]_vars

\* A save was aborted because the indexer of the buffered profile did not answer.
C7_IndexerTestFailed ==
    /\ msg = Enter
    /\ io.validate = "ok"
    /\ io.test = "indexer connection test failed"
    /\ SettingsModel.showStatus

\* ------------------------------------------------------------------------
\* Properties of the network session (checked under NmSpec)
\* ------------------------------------------------------------------------

\* C8: whatever calls were made, a session whose connected flag is set has a
\* primary (algod) client.
C8_ConnectedHasPrimary == networkManager.connected => ~networkManager.algodClient.nil

\* A live session survived a call that is not Connect.
C8_ConnectedAfterOtherCall ==
    networkManager.connected /\ request.op \in {"TestConnection", "GetStatus"}

\* C9: a Connect whose primary client cannot be built or whose primary health
\* check fails returns an error and leaves every field of the session as it
\* was.
C9_FailedConnectKeepsSession ==
    [][(/\ request'.op = "Connect"
        /\ ~(request'.net.algodBuild /\ request'.net.algodStatus)) =>
          /\ request'.err # ""
          /\ networkManager' = networkManager]_vars

\* A Connect failed while a session was live.
C9_FailedWhileConnected ==
    request.op = "Connect" /\ request.err # "" /\ networkManager.connected

\* C10: a Connect whose primary check succeeds returns nil and leaves the
\* session connected to the profile passed; its indexer client is set exactly
\* when the profile has an indexer URL, the indexer client was built and its
\* probe succeeded.
C10_ConnectOnPrimarySuccess ==
    (/\ request.op = "Connect"
     /\ request.net.algodBuild
     /\ request.net.algodStatus) =>
        /\ request.err = ""
        /\ networkManager.connected
        /\ ~networkManager.algodClient.nil
        /\ networkManager.currentNetwork = request.networkInfo
        /\ ~networkManager.indexerClient.nil <=>
               /\ request.networkInfo.IndexerURL # Empty
               /\ request.net.indexerBuild
               /\ request.net.indexerSearch

\* A Connect succeeded although the indexer of the profile did not answer.
C10_ConnectedWithoutIndexer ==
    /\ request.op = "Connect"
    /\ request.err = ""
    /\ request.networkInfo.IndexerURL # Empty
    /\ ~request.net.indexerSearch
    /\ networkManager.indexerClient.nil

\* C11: whatever the session was, after Disconnect both client handles are
\* nil, the connected flag is false and the current profile is the empty
\* profile, so IsConnected answers false; Disconnect reports no error.
C11_DisconnectClearsSession ==
    [][request'.op = "Disconnect" =>
          /\ networkManager'.algodClient = NilClient
          /\ networkManager'.indexerClient = NilClient
          /\ ~networkManager'.connected
          /\ networkManager'.currentNetwork = ZeroNetworkInfo
          /\ ~IsConnected(networkManager')
          /\ request'.err = ""]_vars

\* Disconnect ended a session.
C11_Disconnected ==
    request.op = "Disconnect" /\ ~IsConnected(networkManager) /\ calls = << >>

\* C12: GetStatus called while IsConnected is false returns the
\* not-connected error and sends no request to either endpoint.
C12_StatusNeedsSession ==
    [][(request'.op = "GetStatus" /\ ~IsConnected(networkManager)) =>
          /\ request'.err = "not connected to any network"
          /\ calls' = << >>
          /\ networkManager' = networkManager]_vars

\* GetStatus was refused for want of a session.
C12_StatusRefused ==
    /\ request.op = "GetStatus"
    /\ request.err = "not connected to any network"
    /\ ~IsConnected(networkManager)

\* C13: TestConnection, passing or failing, leaves the four fields of the
\* session as they were; hence in every state, for every profile and every
\* answer of the endpoints, a second call after a first returns what the
\* first returned.
C13_TestKeepsSession ==
    /\ [][request'.op = "TestConnection" => networkManager' = networkManager]_vars
    /\ [](\A networkInfo \in SessionProfiles : \A net \in AllNetOutcomes :
             LET first == TestNetworkConnection(networkManager, networkInfo, net)
                 second == TestNetworkConnection(first.nm, networkInfo, net)
             IN second.err = first.err /\ second.calls = first.calls /\ second.nm = first.nm)

\* TestConnection passed while another profile's session was live.
C13_TestedWhileConnected ==
    /\ request.op = "TestConnection"
    /\ request.err = ""
    /\ networkManager.connected
    /\ networkManager.currentNetwork # request.networkInfo

\* The requests of the log sent for what.
RequestsFor(what) == {i \in 1..Len(calls) : calls[i].request = what}

\* C14: TestConnection returns nil exactly when the primary client is built
\* and answers and, if the profile has an indexer URL, the indexer client is
\* built and answers; the indexer is probed only for a profile with an
\* indexer URL and only after the primary answered; no endpoint is asked twice.
C14_TestOutcome ==
    request.op = "TestConnection" =>
        LET primary == request.net.algodBuild /\ request.net.algodStatus
            secondary == request.net.indexerBuild /\ request.net.indexerSearch
            hasIndexer == request.networkInfo.IndexerURL # Empty
        IN /\ request.err = "" <=> (primary /\ (hasIndexer => secondary))
           /\ Cardinality(RequestsFor("algod.Status")) <= 1
           /\ Cardinality(RequestsFor("indexer.Search")) <= 1
           /\ RequestsFor("indexer.Search") # {} =>
                  /\ hasIndexer
                  /\ primary
                  /\ RequestsFor("algod.Status") = {1}
                  /\ RequestsFor("indexer.Search") = {2}
           /\ \A i \in 1..Len(calls) : calls[i].op = "Test"

\* TestConnection failed on the indexer after the primary answered.
C14_IndexerProbeFailed ==
    /\ request.op = "TestConnection"
    /\ request.err = "indexer connection test failed"
    /\ Len(calls) = 2

\* ------------------------------------------------------------------------
\* Properties of the Settings screen's modes (checked under FormSpec)
\* ------------------------------------------------------------------------

\* getNextField applied n times.
RECURSIVE NextFieldTimes(_, _)
NextFieldTimes(field, n) ==
    IF n = 0 THEN field ELSE NextFieldTimes(getNextField(field), n - 1)

\* C15: the seven fields of the profile form are a ring: from the field the
\* form is on, next-field seven times leads back to it, and so do next-field
\* then previous-field and previous-field then next-field.
C15_FieldRing ==
    SettingsModel.editingNetwork =>
        LET field == SettingsModel.editField IN
        /\ \E i \in 1..Len(Fields) : Fields[i] = field
        /\ Len(Fields) = 7
        /\ NextFieldTimes(field, 7) = field
        /\ \A n \in 1..6 : NextFieldTimes(field, n) # field
        /\ getPrevField(getNextField(field)) = field
        /\ getNextField(getPrevField(field)) = field

\* ShiftTab on the first field wrapped to the last one.
C15_WrappedBackwards ==
    /\ SettingsModel.editingNetwork
    /\ msg = ShiftTab
    /\ SettingsModel.editField = "indexer_token"

\* The step delivers a key to the profile form.
FormStep == CurrentState = "SettingsView" /\ SettingsModel.editingNetwork

\* The wallet edit and the profile form are never open together, and each is
\* opened from the browsing mode only.
ModesExclusive ==
    /\ ~(SettingsModel.editingAddr /\ SettingsModel.editingNetwork)
    /\ ~(SettingsModel'.editingAddr /\ SettingsModel'.editingNetwork)
    /\ (SettingsModel'.editingAddr /\ ~SettingsModel.editingAddr) =>
           (~SettingsModel.editingNetwork /\ msg' = RuneKey("e"))
    /\ (SettingsModel'.editingNetwork /\ ~SettingsModel.editingNetwork) =>
           (~SettingsModel.editingAddr /\ msg' \in {RuneKey("n"), RuneKey("c")})

C17_WalletCancelDiscards ==
    [][(CurrentState = "SettingsView" /\ ~SettingsModel.editingNetwork) =>
          /\ (~SettingsModel.editingAddr /\ msg' = RuneKey("e")) =>
                 /\ SettingsModel'.editingAddr
                 /\ SettingsModel'.config = SettingsModel.config
                 /\ configFile' = configFile
          /\ (SettingsModel.editingAddr /\ msg' # Enter) =>
                 /\ SettingsModel'.config = SettingsModel.config
                 /\ configFile' = configFile
                 /\ CurrentState' = "SettingsView"
          /\ (SettingsModel.editingAddr /\ msg' = Esc) =>
                 /\ ~SettingsModel'.editingAddr
                 /\ ~SettingsModel'.editingNetwork
                 /\ SettingsModel'.inputBuffer = Empty]_vars

\* A wallet edit in which something was typed was cancelled; the address of
\* the file is still the configured one.
C17_TypedThenCancelled ==
    /\ CurrentState = "SettingsView"
    /\ msg = Esc
    /\ SettingsModel.editField = ""
    /\ edits = MaxEdits
    /\ ~SettingsModel.editingAddr
    /\ SettingsModel.config.WalletAddr = <<"W">>
    /\ configFile.wallet_addr = <<"W">>

\* C19: the list of user-defined profiles of the configuration in memory is
\* never a nil slice, whatever file the program started from and whatever was
\* saved and reloaded since.
C19_ProfileListInitialised == ~SettingsModel.config.IsNil

\* C20: when a step of the last event on the Settings screen failed
\* (validation, connection test, connect, write of the file, reload of the
\* file), the screen shows a status message carrying the error.
C20_FailuresShown ==
    (/\ CurrentState = "SettingsView"
     /\ \/ io.validate \notin {"none", "ok"}
        \/ io.test \notin {"none", "ok"}
        \/ io.connect \notin {"none", "ok"}
        \/ io.write \notin {"none", "ok"}
        \/ io.reload \notin {"none", "ok"}) =>
        /\ SettingsModel.showStatus
        /\ SettingsModel.connectionStatus.err # ""

\* ------------------------------------------------------------------------
\* Properties of the client addresses (checked under AddressSpec)
\* ------------------------------------------------------------------------

HasSuffix(s, p) == Len(s) >= Len(p) /\ SubSeq(s, Len(s) - Len(p) + 1, Len(s)) = p

\* The URL without the blanks around it and the slashes at its end.
RECURSIVE Stripped(_)
Stripped(url) ==
    IF url # Empty /\ url[1] = " " THEN Stripped(Tail(url))
    ELSE IF url # Empty /\ url[Len(url)] \in {" ", "/"} THEN Stripped(DropLastByte(url))
    ELSE url

\* C18: the address handed to the client constructor is the URL without
\* surrounding blanks and trailing slashes; nothing is appended when the URL
\* has a scheme and the port is 443 or 80, or when the URL embeds a port;
\* otherwise ":" and the port are appended; both endpoints get the same
\* address from the same URL and port.
C18_AddressNormalised ==
    request.op = "Build" =>
        LET url == request.networkInfo.AlgodURL
            port == request.networkInfo.AlgodPort
            base == Stripped(url)
            embedsPort == HasSuffix(base, <<":", "9">>)
            expected == IF (Contains(base, SchemeSep) /\ port \in {Port443, Port80})
                           \/ embedsPort
                        THEN base
                        ELSE base \o Colon \o port
        IN /\ calls[1].address = expected
           /\ calls[2].address = calls[1].address

\* ------------------------------------------------------------------------
\* Properties of the status line and the registry (checked under SettingsSpec)
\* ------------------------------------------------------------------------

\* C21: in the browsing mode of the Settings screen the dismiss key (space),
\* an up or down key and the key that leaves the screen (esc) each leave no
\* status message visible.
C21_StatusCleared ==
    [][(/\ CurrentState = "SettingsView"
        /\ ~IsEditingAddr(SettingsModel)
        /\ msg' \in {SpaceKey, Up, Down, Esc}) =>
          ~SettingsModel'.showStatus]_vars

\* C22: every profile of the registry has a name, an algod URL and an algod
\* port, and an indexer port whenever it has an indexer URL.
C22_RegistryValid ==
    \A name \in DOMAIN SettingsModel.networkInfos :
        LET info == SettingsModel.networkInfos[name] IN
        /\ info.Name # Empty
        /\ info.AlgodURL # Empty
        /\ info.AlgodPort # Empty
        /\ info.IndexerURL # Empty => info.IndexerPort # Empty

\* C24: a save that passed validation and the connection test and whose
\* write of the configuration file fails shows the write error and keeps the
\* commit in memory: the registry maps the name to the buffer, the ordered
\* list holds the name and the user-defined list of the configuration in
\* memory holds the buffer, while the file holds nothing the save produced.
C24_FailedWriteKeepsCommit ==
    [][(SaveStep /\ io'.test = "ok" /\ io'.write \in {"failed", "truncated"}) =>
          LET buffer == SettingsModel.networkBuffer
              p == buffer.Name
              networks == SettingsModel'.networks
              custom == SettingsModel'.config.CustomNetworks
          IN /\ SettingsModel'.showStatus
             /\ SettingsModel'.connectionStatus.text = "Failed to save config: %v"
             /\ SettingsModel'.connectionStatus.err # ""
             /\ p \in DOMAIN SettingsModel'.networkInfos
             /\ SettingsModel'.networkInfos[p] = buffer
             /\ \E i \in 1..Len(networks) : networks[i] = p
             /\ \E i \in 1..Len(custom) : custom[i] = buffer
             /\ configFile' \in {configFile, MalformedFile}]_vars

\* The save of a new profile could not be written: the profile is in the
\* registry and in the list, and there is still no configuration file.
C24_CommittedNotWritten ==
    /\ msg = Enter
    /\ io.write = "failed"
    /\ configFile = MissingFile
    /\ SettingsModel.networks = <<Localnet, Testnet, Mainnet, CustomName>>
    /\ SettingsModel.networkInfos[CustomName] = NewCustomNetwork
    /\ SettingsModel.config.CustomNetworks = <<NewCustomNetwork>>

\* C25: after a save that was written and read back, the registry, the
\* ordered list, the selected network, the wallet address and the user-defined
\* list in memory are those NewSettingsModel builds from the configuration
\* file as it now is.
C25_MemoryMatchesFreshStart ==
    [][(SaveStep /\ io'.write = "ok" /\ io'.reload = "ok") =>
          LET fresh == NewSettingsModel(configFile', <<Localnet, Testnet, Mainnet>>) IN
          /\ SettingsModel'.networkInfos = fresh.networkInfos
          /\ SettingsModel'.networks = fresh.networks
          /\ SettingsModel'.config.Network = fresh.config.Network
          /\ SettingsModel'.config.WalletAddr = fresh.config.WalletAddr
          /\ SettingsModel'.config.CustomNetworks = fresh.config.CustomNetworks]_vars

\* C27 as stated: enter in the profile form closes the form and opens no
\* other mode, and a save aborted by the validation, by the connection test
\* or by a failed write of the file leaves the registry as it was.
C27_AbortedSaveCommitsNothing ==
    [][SaveStep =>
          /\ ~SettingsModel'.editingNetwork
          /\ ~SettingsModel'.editingAddr
          /\ CurrentState' = "SettingsView"
          /\ (\/ io'.validate \notin {"none", "ok"}
              \/ io'.test \notin {"none", "ok"}
              \/ io'.write \notin {"none", "ok"}) =>
                 SettingsModel'.networkInfos = SettingsModel.networkInfos]_vars

\* C27, amended: enter in the profile form closes the form and opens no other
\* mode; a save aborted by the validation or by the connection test leaves
\* the registry as it was; a save whose write of the file fails has put the
\* buffer into the registry and keeps it there.
C27_SaveClosesForm ==
    [][SaveStep =>
          /\ ~SettingsModel'.editingNetwork
          /\ ~SettingsModel'.editingAddr
          /\ CurrentState' = "SettingsView"
          /\ (io'.validate \notin {"none", "ok"} \/ io'.test \notin {"none", "ok"}) =>
                 /\ SettingsModel'.networkInfos = SettingsModel.networkInfos
                 /\ io'.write = "none"
          /\ io'.write \notin {"none", "ok"} =>
                 /\ SettingsModel.networkBuffer.Name \in DOMAIN SettingsModel'.networkInfos
                 /\ SettingsModel'.networkInfos[SettingsModel.networkBuffer.Name] =
                        SettingsModel.networkBuffer]_vars

\* A save whose write truncated the file closed the form with the new profile
\* in the registry.
C27_ClosedAfterFailedWrite ==
    /\ CurrentState = "SettingsView"
    /\ msg = Enter
    /\ io.write = "truncated"
    /\ ~SettingsModel.editingNetwork
    /\ CustomName \in DOMAIN SettingsModel.networkInfos
    /\ CustomName \notin DOMAIN PredefinedNetworks

\* C28: the list cursor of the Settings screen is an index of the ordered
\* name list, from the start on, whatever network the configuration file
\* selects, and after every key.
C28_CursorInRange ==
    /\ SettingsModel.cursor >= 0
    /\ SettingsModel.cursor < Len(SettingsModel.networks)

\* The program started from a file that selects no known network, and a new
\* profile was saved: the cursor is on the new last entry.
C28_CursorOnAppended ==
    /\ msg = Enter
    /\ SettingsModel.config.Network = Empty
    /\ Len(SettingsModel.networks) = 4
    /\ SettingsModel.cursor = 3

\* C29: the ordered list holds no name twice, its names are exactly the keys
\* of the registry, every profile of the registry is stored under its own
\* name, and a step only appends to the list.
C29_ListMatchesRegistry ==
    /\ [](LET networks == SettingsModel.networks
              networkInfos == SettingsModel.networkInfos
          IN /\ \A i, j \in 1..Len(networks) : networks[i] = networks[j] => i = j
             /\ {networks[i] : i \in 1..Len(networks)} = DOMAIN networkInfos
             /\ \A name \in DOMAIN networkInfos : networkInfos[name].Name = name)
    /\ [][/\ Len(SettingsModel'.networks) >= Len(SettingsModel.networks)
          /\ SubSeq(SettingsModel'.networks, 1, Len(SettingsModel.networks)) =
                 SettingsModel.networks]_vars

\* ------------------------------------------------------------------------
\* Properties of the commit step and the session of a resumed run (checked
\* under ResumedSpec)
\* ------------------------------------------------------------------------

C30_SessionIsSelectedNetwork ==
    IsConnected(networkManager) =>
        networkManager.currentNetwork.Name = SettingsModel.config.Network

\* ------------------------------------------------------------------------
\* Properties of the payment form (checked under GoalSpec)
\* ------------------------------------------------------------------------

\* C26: when enter reaches the payment form, the goal command is invoked only
\* if the recipient is not blank and the amount is a positive integer, that
\* is, digits that are not all zeros; and when Validate rejects the form the
\* status is the validation message and the command is not invoked.
C26_RunsValidatedForm ==
    [][(CurrentState = "CmdGoalsView" /\ msg' = Enter /\ CmdGoalsModel.nav = 0) =>
          LET to == TrimSpace(CmdGoalsModel.fields[2].Value)
              amt == TrimSpace(CmdGoalsModel.fields[3].Value)
              positive == /\ amt # Empty
                          /\ \A i \in 1..Len(amt) : amt[i] \in Digits
                          /\ \E i \in 1..Len(amt) : amt[i] # "0"
              invalid == Validate(CmdGoalsModel.fields)
          IN /\ CmdGoalsModel'.ran => (to # Empty /\ positive)
             /\ invalid # "" =>
                    /\ ~CmdGoalsModel'.ran
                    /\ CmdGoalsModel'.status = "Validation: " \o invalid]_vars

====
